---- MODULE Spec2Model ----
(***************************************************************************)
(* Model of the Stripe / BigCommerce reconciliation calculator.            *)
(*                                                                         *)
(* The repository holds two revisions of the same script:                  *)
(*   src/calc.js            (version "calc")                               *)
(*   src/unnamed/part_000   (version "part_000", the reworked script)      *)
(* Both are modelled; the variable `version` selects which main() runs.    *)
(*                                                                         *)
(* JavaScript numbers are modelled exactly, as integers counting units of  *)
(* 1/Unit, where Unit is a multiple of 100 (division by 100, cents to      *)
(* dollars) and of every total quantity an invoice of the model can have   *)
(* (the proration quotient).  NaN is modelled where the code can produce   *)
(* it (parseFloat, 0/0 in the proration).                                  *)
(***************************************************************************)
EXTENDS Integers, Sequences, FiniteSets, TLC

\* ------------------------------------------------------------------ bounds

MaxRecords == 2
MaxLines == 2
MaxQty == 2

\* ----------------------------------------------------------------- numbers

RECURSIVE Gcd(_, _)
Gcd(a, b) == IF b = 0 THEN a ELSE Gcd(b, a % b)

RECURSIVE LcmUpTo(_)
LcmUpTo(n) == IF n <= 1 THEN 1
              ELSE LET l == LcmUpTo(n - 1) IN (l * n) \div Gcd(l, n)

\* One JavaScript 1.0 is Unit model units.
Unit == 100 * LcmUpTo(MaxLines * MaxQty)

\* The JavaScript number n (an integer literal).
Num(n) == n * Unit

\* A JavaScript value that may be NaN.
NaN == [nan |-> TRUE, v |-> 0]
Val(x) == [nan |-> FALSE, v |-> x]

\* x || 0 : NaN and 0 are falsy.
OrZero(x) == IF x.nan THEN 0 ELSE x.v

\* a + b on values that may be NaN.
JsAdd(a, b) == IF a.nan \/ b.nan THEN NaN ELSE Val(a.v + b.v)

\* parseFloat on the cells the model's reports hold: a decimal literal parses
\* to its value, anything else ("abc", the empty cell) to NaN.
ParseFloat(cell) ==
    CASE cell = "100.00" -> Val(Num(100))
      [] cell = "-5.00"  -> Val(Num(-5))
      [] cell = "-3.00"  -> Val(Num(-3))
      [] OTHER           -> NaN

\* ------------------------------------------------------------------ emails

\* The characters of a string (TLC cannot take a string apart).
Chars(s) ==
    CASE s = "" -> <<>>
      [] s = "bob@shop.com" ->
           <<"b","o","b","@","s","h","o","p",".","c","o","m">>
      [] s = "Dev@RAZOYO.com" ->
           <<"D","e","v","@","R","A","Z","O","Y","O",".","c","o","m">>
      [] s = "ffl@AutomaticFFL.com" ->
           <<"f","f","l","@","A","u","t","o","m","a","t","i","c","F","F","L",
             ".","c","o","m">>
      [] s = "ops@refactored.group" ->
           <<"o","p","s","@","r","e","f","a","c","t","o","r","e","d",".",
             "g","r","o","u","p">>
      [] s = "cus_1" -> <<"c","u","s","_","1">>
      [] s = "cus_2" -> <<"c","u","s","_","2">>
      [] s = "razoyo" -> <<"r","a","z","o","y","o">>
      [] s = "automaticffl" ->
           <<"a","u","t","o","m","a","t","i","c","f","f","l">>
      [] s = "refactored.group" ->
           <<"r","e","f","a","c","t","o","r","e","d",".","g","r","o","u","p">>

LowerChar(c) ==
    CASE c = "A" -> "a" [] c = "D" -> "d" [] c = "F" -> "f" [] c = "L" -> "l"
      [] c = "O" -> "o" [] c = "R" -> "r" [] c = "Y" -> "y" [] c = "Z" -> "z"
      [] OTHER -> c

\* String.prototype.toLowerCase
ToLowerCase(cs) == [k \in 1..Len(cs) |-> LowerChar(cs[k])]

\* String.prototype.includes
Includes(cs, sub) ==
    \E off \in 0..(Len(cs) - Len(sub)) :
        \A k \in 1..Len(sub) : cs[off + k] = sub[k]

shouldIgnoreCustomerCaseSensitive(email) ==
    IF email = "" THEN FALSE
    ELSE LET cs == Chars(email) IN
         \/ Includes(cs, Chars("razoyo"))
         \/ Includes(cs, Chars("automaticffl"))
         \/ Includes(cs, Chars("refactored.group"))

shouldIgnoreCustomer(email) ==
    IF email = "" THEN FALSE
    ELSE LET lowerEmail == ToLowerCase(Chars(email)) IN
         \/ Includes(lowerEmail, Chars("razoyo"))
         \/ Includes(lowerEmail, Chars("automaticffl"))
         \/ Includes(lowerEmail, Chars("refactored.group"))

\* ----------------------------------------------------------------- invoice

AmmoProductId == "prod_ammo"

Line(p, q, a) == [product |-> p, quantity |-> q, amount |-> a]

RECURSIVE SumQuantity(_)
SumQuantity(lines) ==
    IF lines = <<>> THEN 0
    ELSE lines[1].quantity + SumQuantity(Tail(lines))

\* quantity / totalQuantity scaled by totalFee: totalFee * proportion.
\* 0 / 0 is NaN; quantities are non-negative, so a zero total means 0 / 0.
FeeShare(totalFeeArg, quantity, totalQuantity) ==
    IF totalQuantity = 0 THEN NaN
    ELSE Val((totalFeeArg * quantity) \div totalQuantity)

\* feesPerProduct[productId] = (feesPerProduct[productId] || 0) + share
AccumulateOverwriting(fees, productId, share) ==
    [p \in DOMAIN fees \cup {productId} |->
        IF p = productId THEN share ELSE fees[p]]

Accumulate(fees, productId, share) ==
    [p \in DOMAIN fees \cup {productId} |->
        IF p = productId
        THEN JsAdd(Val(IF productId \in DOMAIN fees
                       THEN OrZero(fees[productId]) ELSE 0), share)
        ELSE fees[p]]

RECURSIVE ProportionalFeesFrom(_, _, _, _)
ProportionalFeesFrom(fees, lines, totalFeeArg, totalQuantity) ==
    IF lines = <<>> THEN fees
    ELSE ProportionalFeesFrom(
            Accumulate(fees, lines[1].product,
                       FeeShare(totalFeeArg, lines[1].quantity, totalQuantity)),
            Tail(lines), totalFeeArg, totalQuantity)

EmptyFees == [p \in {} |-> NaN]

calculateProportionalFees(lines, totalFeeArg) ==
    ProportionalFeesFrom(EmptyFees, lines, totalFeeArg, SumQuantity(lines))

\* invoice.lines.data.some(line => line.price.product === ammoProductId)
HasExcludedProduct(lines) ==
    \E k \in 1..Len(lines) : lines[k].product = AmmoProductId

\* getProductFees after stripe.invoices.list has settled with `response`
\* (customerId is non-empty here: the caller's !customerId branch came first).
getProductFees(response, totalFeeArg) ==
    IF response.kind = "throw" \/ Len(response.data) = 0
    THEN [hasExcludedProduct |-> FALSE, feesPerProduct |-> EmptyFees,
          lines |-> <<>>]
    ELSE LET invoice == response.data[1] IN
         [hasExcludedProduct |-> HasExcludedProduct(invoice.lines),
          feesPerProduct |-> calculateProportionalFees(invoice.lines, totalFeeArg),
          lines |-> invoice.lines]

\* ------------------------------------------------------------------ inputs

Versions == {"calc", "part_000"}

CustomerIdCells == {"", "cus_1", "cus_2"}
EmailCells == {"", "bob@shop.com", "Dev@RAZOYO.com"}
\* reporting_category, gross, fee as the report's cells hold them
MoneyCells == { <<"charge", "100.00", "-3.00">>,
                <<"refund", "-5.00", "abc">> }

RowSet ==
    { [customer_id |-> c, customer_email |-> e,
       reporting_category |-> m[1], gross |-> m[2], fee |-> m[3]] :
      c \in CustomerIdCells, e \in EmailCells, m \in MoneyCells }

\* input.split(",").map(trim): never an empty list; the empty input gives [""].
CustomerIdLists == { <<"">>, <<"cus_1">>, <<"cus_1", "cus_2">> }

ListIncludes(list, x) == \E k \in 1..Len(list) : list[k] = x

\* What stripe.invoices.list({customer, limit: 1}) can settle with.
InvoiceCatalogue ==
    { <<>>,
      << Line("prod_A", 1, 50) >>,
      << Line("prod_A", 1, 50), Line(AmmoProductId, 1, 50) >>,
      << Line(AmmoProductId, 2, 30) >>,
      << Line("prod_A", 0, 50), Line(AmmoProductId, 0, 30) >>,
      << Line("prod_A", 1, 20), Line("prod_A", 1, 30) >> }

Responses ==
    { [kind |-> "throw", data |-> <<>>], [kind |-> "ok", data |-> <<>>] }
    \cup { [kind |-> "ok", data |-> << [lines |-> l] >>] : l \in InvoiceCatalogue }

NoResponse == [kind |-> "none", data |-> <<>>]

\* ------------------------------------------------------------------- state

VARIABLES
    version,              \* which revision's main() runs
    rows,                 \* parseCSV's result
    customerIds,          \* customerIds / nonBigCommerceIds
    pc, idx,              \* main's position: phase and 1-based row index
    allTransactionsGross, \* grossAmountBeforeFees in calc.js
    allTransactionsFees,  \* part_000 only
    netBalanceChange,
    nonBigCommerceGross,  \* totalGross in calc.js
    nonBigCommerceFees,   \* part_000 only
    totalFee,             \* calc.js only: one accumulator for both fee roles
    ammoProductsTotal,    \* part_000; in calc.js the amounts line 265 subtracts
    bigCommerceGross,     \* bigCommerceGrossSales in calc.js
    bigCommerceNet,       \* bigCommerceNetDisbursed in calc.js
    outstanding,          \* the awaited stripe.invoices.list calls
    lookups,              \* every stripe.invoices.list call issued, in order
    resp,                 \* what the last awaited call settled with
    rowStart,             \* bucket gross and fee when the current row began
    bucketFeeAdded,       \* fee amounts the classification loop added
    table,                \* table / transactionTable: the rows pushed so far
    fLines, fTotalFee, fResult, fpc   \* calculateProportionalFees alone

progVars == << version, rows, customerIds, pc, idx, allTransactionsGross,
               allTransactionsFees, netBalanceChange, nonBigCommerceGross,
               nonBigCommerceFees, totalFee, ammoProductsTotal,
               bigCommerceGross, bigCommerceNet, outstanding, lookups, resp,
               rowStart, bucketFeeAdded, table >>
feeVars == << fLines, fTotalFee, fResult, fpc >>
vars == << progVars, feeVars >>

grossValue(row) == OrZero(ParseFloat(row.gross))
feeValue(row) == OrZero(ParseFloat(row.fee))

RECURSIVE SumChargeGross(_)
SumChargeGross(rs) ==
    IF rs = <<>> THEN 0
    ELSE (IF rs[1].reporting_category = "charge" THEN grossValue(rs[1]) ELSE 0)
         + SumChargeGross(Tail(rs))

RECURSIVE SumNegativeGross(_)
SumNegativeGross(rs) ==
    IF rs = <<>> THEN 0
    ELSE (IF grossValue(rs[1]) < 0 THEN grossValue(rs[1]) ELSE 0)
         + SumNegativeGross(Tail(rs))

RECURSIVE SumNegatedFees(_)
SumNegatedFees(rs) ==
    IF rs = <<>> THEN 0
    ELSE SumNegatedFees(Tail(rs)) - feeValue(rs[1])

\* The fee accumulator of the exclusion bucket.
BucketFee == IF version = "calc" THEN totalFee ELSE nonBigCommerceFees

ProgInit ==
    /\ version \in Versions
    /\ rows \in UNION { [1..n -> RowSet] : n \in 0..MaxRecords }
    /\ customerIds \in CustomerIdLists
    /\ pc = "totals"
    /\ idx = 1
    /\ allTransactionsGross = 0
    /\ allTransactionsFees = 0
    /\ netBalanceChange = 0
    /\ nonBigCommerceGross = 0
    /\ nonBigCommerceFees = 0
    /\ totalFee = 0
    /\ ammoProductsTotal = 0
    /\ bigCommerceGross = 0
    /\ bigCommerceNet = 0
    /\ outstanding = <<>>
    /\ lookups = <<>>
    /\ resp = NoResponse
    /\ rowStart = [gross |-> 0, fee |-> 0]
    /\ bucketFeeAdded = 0
    /\ table = <<>>

FeeIdle ==
    /\ fLines = <<>>
    /\ fTotalFee = 0
    /\ fResult = EmptyFees
    /\ fpc = "idle"

Init == ProgInit /\ FeeIdle

\* ------------------------------------------------------------------- table

\* Number.prototype.toFixed(2): the decimal string with two fraction digits
\* nearest to v, ties away from zero; the string is held as its count of
\* hundredths.
ToFixed2(v) ==
    LET h == Unit \div 100
        mag == IF v < 0 THEN 0 - v ELSE v
        n == (2 * mag + h) \div (2 * h)
    IN << "fixed2", IF v < 0 THEN 0 - n ELSE n >>

Text(str) == << "text", str >>

\* String.prototype.substring(0, 10)
Substring10(cs) == SubSeq(cs, 1, IF Len(cs) < 10 THEN Len(cs) ELSE 10)

TableRow(c1, c2, c3, c4) == [source |-> c1, gross |-> c2, fee |-> c3, notes |-> c4]

\* The row pushed for a record without customer id (calc.js 193-198,
\* part_000 304-309).
NoCustomerRow(ver, row) ==
    IF ver = "calc"
    THEN TableRow(Text("Additional Stripe fees"), ToFixed2(grossValue(row)),
                  ToFixed2(feeValue(row)), Text("N/A"))
    ELSE TableRow(Text("Stripe Fee/Adjustment"), ToFixed2(grossValue(row)),
                  ToFixed2(feeValue(row)),
                  Text(IF grossValue(row) < 0 THEN "Fee/Refund" ELSE "Payment"))

\* part_000 320-325
NonBigCommerceRow(row) ==
    TableRow(<< "text", "Customer: ", Substring10(Chars(row.customer_id)), "..." >>,
             ToFixed2(grossValue(row)), ToFixed2(feeValue(row)),
             Text("Non-BigCommerce"))

\* calc.js 208-213
NoExcludedProductRow(row) ==
    TableRow(Text(row.customer_id), ToFixed2(grossValue(row)),
             ToFixed2(feeValue(row)), Text("No"))

\* calc.js 216-227: one row per line other than the excluded product's.
RECURSIVE KeptLineRows(_, _, _)
KeptLineRows(row, lines, fees) ==
    IF lines = <<>> THEN <<>>
    ELSE (IF lines[1].product # AmmoProductId
          THEN << TableRow(Text(row.customer_id),
                           ToFixed2(Num(lines[1].amount)),
                           ToFixed2(OrZero(fees[lines[1].product])),
                           Text("Yes")) >>
          ELSE <<>>)
         \o KeptLineRows(row, Tail(lines), fees)

\* part_000 331-338: per listed id, the gross of every transaction of that id.
RECURSIVE GrossOfCustomer(_, _)
GrossOfCustomer(rs, id) ==
    IF rs = <<>> THEN 0
    ELSE (IF rs[1].customer_id = id THEN grossValue(rs[1]) ELSE 0)
         + GrossOfCustomer(Tail(rs), id)

RECURSIVE CustomerGross(_, _)
CustomerGross(ids, rs) ==
    IF ids = <<>> THEN 0
    ELSE GrossOfCustomer(rs, ids[1]) + CustomerGross(Tail(ids), rs)

\* stats.noCustomerId when the classification loop is over (part_000 300-301).
RECURSIVE NoCustomerIdCount(_)
NoCustomerIdCount(rs) ==
    IF rs = <<>> THEN 0
    ELSE (IF ~shouldIgnoreCustomer(rs[1].customer_email) /\ rs[1].customer_id = ""
          THEN 1 ELSE 0)
         + NoCustomerIdCount(Tail(rs))

\* The rows pushed once the classification loop is over (calc.js 233,
\* part_000 343-363).
TotalRows ==
    IF version = "calc"
    THEN << TableRow(Text("Total"), ToFixed2(nonBigCommerceGross),
                     ToFixed2(totalFee), Text("")) >>
    ELSE << TableRow(Text("SUBTOTAL: Customer"),
                     ToFixed2(CustomerGross(customerIds, rows)), Text("-"),
                     << "text", Len(customerIds), " customers" >>),
            TableRow(Text("SUBTOTAL: Stripe Fees"),
                     ToFixed2(nonBigCommerceGross
                              - CustomerGross(customerIds, rows)),
                     Text("-"),
                     << "text", NoCustomerIdCount(rows), " entries" >>),
            TableRow(Text("NON-BIGCOMMERCE TOTAL"),
                     ToFixed2(nonBigCommerceGross),
                     ToFixed2(nonBigCommerceFees), Text("Excluded from BC")) >>

\* ----------------------------------------------------------------- actions

\* calc.js 146-163, part_000 227-255: the totals over every row of the report.
ComputeTotals ==
    /\ pc = "totals"
    /\ allTransactionsGross' = SumChargeGross(rows)
    /\ IF version = "calc"
       THEN /\ totalFee' = SumNegatedFees(rows)
            /\ netBalanceChange' =
                 SumChargeGross(rows) + SumNegativeGross(rows) + totalFee'
            /\ UNCHANGED allTransactionsFees
       ELSE /\ allTransactionsFees' = SumNegatedFees(rows)
            /\ netBalanceChange' =
                 SumChargeGross(rows) + SumNegativeGross(rows)
                 + allTransactionsFees'
            /\ UNCHANGED totalFee
    /\ pc' = "classify"
    /\ idx' = 1
    /\ UNCHANGED << version, rows, customerIds, nonBigCommerceGross,
                    nonBigCommerceFees, ammoProductsTotal, bigCommerceGross,
                    bigCommerceNet, outstanding, lookups, resp, rowStart,
                    bucketFeeAdded, table >>

\* Adds `g` to the bucket gross and `f` to the bucket fee accumulator.
AddToBucket(g, f) ==
    /\ nonBigCommerceGross' = nonBigCommerceGross + g
    /\ IF version = "calc"
       THEN totalFee' = totalFee + f /\ UNCHANGED nonBigCommerceFees
       ELSE nonBigCommerceFees' = nonBigCommerceFees + f /\ UNCHANGED totalFee
    /\ bucketFeeAdded' = bucketFeeAdded + f

SettleLookupStillPending(pending) == pending

\* The awaited stripe.invoices.list call has settled: main resumes only then
\* (await at calc.js 203 via getProductFees 78, 252; part_000 417).
SettleLookup(pending) == Tail(pending)

\* The row is taken into the exclusion bucket after a lookup (calc.js 199-203)
\* rather than at once (part_000 312-318).
ClassifyLooksUp(ver) == ver = "calc"

\* One iteration of the classification loop, up to its await if it has one
\* (calc.js 174-203, part_000 280-328).
ClassifyRow ==
    /\ pc = "classify"
    /\ idx <= Len(rows)
    /\ LET row == rows[idx]
           customerId == row.customer_id
       IN
       /\ rowStart' = [gross |-> nonBigCommerceGross, fee |-> BucketFee]
       /\ resp' = NoResponse
       /\ IF shouldIgnoreCustomer(row.customer_email)
          THEN /\ idx' = idx + 1
               /\ UNCHANGED << pc, nonBigCommerceGross, nonBigCommerceFees,
                               totalFee, bucketFeeAdded, outstanding, lookups,
                               table >>
          ELSE IF customerId = ""
          THEN /\ AddToBucket(grossValue(row), feeValue(row))
               /\ table' = Append(table, NoCustomerRow(version, row))
               /\ idx' = idx + 1
               /\ UNCHANGED << pc, outstanding, lookups >>
          ELSE IF ListIncludes(customerIds, customerId)
          THEN IF ClassifyLooksUp(version)
               THEN /\ AddToBucket(0, feeValue(row))
                    /\ outstanding' = Append(outstanding,
                         [pass |-> 1, row |-> idx, customer |-> customerId])
                    /\ lookups' = Append(lookups,
                         [pass |-> 1, row |-> idx, customer |-> customerId])
                    /\ pc' = "await1"
                    /\ UNCHANGED << idx, table >>
               ELSE /\ AddToBucket(grossValue(row), feeValue(row))
                    /\ table' = Append(table, NonBigCommerceRow(row))
                    /\ idx' = idx + 1
                    /\ UNCHANGED << pc, outstanding, lookups >>
          ELSE /\ idx' = idx + 1
               /\ UNCHANGED << pc, nonBigCommerceGross, nonBigCommerceFees,
                               totalFee, bucketFeeAdded, outstanding, lookups,
                               table >>
    /\ UNCHANGED << version, rows, customerIds, allTransactionsGross,
                    allTransactionsFees, netBalanceChange, ammoProductsTotal,
                    bigCommerceGross, bigCommerceNet >>

\* Sums over the lines main keeps when the invoice holds the excluded product
\* (calc.js 216-227): line.amount, and feesPerProduct[product] || 0 per line.
RECURSIVE KeptAmount(_)
KeptAmount(lines) ==
    IF lines = <<>> THEN 0
    ELSE (IF lines[1].product # AmmoProductId THEN Num(lines[1].amount) ELSE 0)
         + KeptAmount(Tail(lines))

RECURSIVE KeptFees(_, _)
KeptFees(lines, fees) ==
    IF lines = <<>> THEN 0
    ELSE (IF lines[1].product # AmmoProductId
          THEN OrZero(fees[lines[1].product]) ELSE 0)
         + KeptFees(Tail(lines), fees)

\* The awaited getProductFees settles and the iteration finishes
\* (calc.js 202-229).  A failed lookup is caught inside getProductFees.
GetProductFeesReturns ==
    /\ pc = "await1"
    /\ \E r \in Responses :
         LET row == rows[idx]
             res == getProductFees(r, feeValue(row))
         IN
         /\ resp' = r
         /\ IF ~res.hasExcludedProduct
            THEN /\ AddToBucket(grossValue(row), feeValue(row))
                 /\ table' = Append(table, NoExcludedProductRow(row))
            ELSE /\ AddToBucket(KeptAmount(res.lines),
                                KeptFees(res.lines, res.feesPerProduct))
                 /\ table' = table \o
                      KeptLineRows(row, res.lines, res.feesPerProduct)
    /\ outstanding' = SettleLookup(outstanding)
    /\ idx' = idx + 1
    /\ pc' = "classify"
    /\ UNCHANGED << version, rows, customerIds, allTransactionsGross,
                    allTransactionsFees, netBalanceChange, ammoProductsTotal,
                    bigCommerceGross, bigCommerceNet, lookups, rowStart >>

InitialBigCommerceGrossNoSubtraction(allGross, bucketGross) == allGross

\* calc.js 240, part_000 390
InitialBigCommerceGross(allGross, bucketGross) == allGross - bucketGross

\* The classification loop is over: the platform gross before the adjustment.
StartAdjustment ==
    /\ pc = "classify"
    /\ idx > Len(rows)
    /\ bigCommerceGross' =
         InitialBigCommerceGross(allTransactionsGross, nonBigCommerceGross)
    /\ table' = table \o TotalRows
    /\ pc' = "adjust"
    /\ idx' = 1
    /\ UNCHANGED << version, rows, customerIds, allTransactionsGross,
                    allTransactionsFees, netBalanceChange, nonBigCommerceGross,
                    nonBigCommerceFees, totalFee, ammoProductsTotal,
                    bigCommerceNet, outstanding, lookups, resp, rowStart,
                    bucketFeeAdded >>

NeedsSecondPassLookupNoIdGuard(ver, row, ids) ==
    /\ ~shouldIgnoreCustomer(row.customer_email)
    /\ IF ver = "calc"
       THEN ListIncludes(ids, row.customer_id)
       ELSE ~ListIncludes(ids, row.customer_id)

\* Whether the second loop looks the row's customer up
\* (calc.js 247-251, part_000 408-416).
NeedsSecondPassLookup(ver, row, ids) ==
    /\ ~shouldIgnoreCustomer(row.customer_email)
    /\ IF ver = "calc"
       THEN row.customer_id # "" /\ ListIncludes(ids, row.customer_id)
       ELSE ~ListIncludes(ids, row.customer_id) /\ row.customer_id # ""

\* One iteration of the second loop, up to its await if it has one.
AdjustRow ==
    /\ pc = "adjust"
    /\ idx <= Len(rows)
    /\ resp' = NoResponse
    /\ IF NeedsSecondPassLookup(version, rows[idx], customerIds)
       THEN /\ outstanding' = Append(outstanding,
                 [pass |-> 2, row |-> idx, customer |-> rows[idx].customer_id])
            /\ lookups' = Append(lookups,
                 [pass |-> 2, row |-> idx, customer |-> rows[idx].customer_id])
            /\ pc' = "await2"
            /\ UNCHANGED idx
       ELSE /\ idx' = idx + 1
            /\ UNCHANGED << pc, outstanding, lookups >>
    /\ UNCHANGED << version, rows, customerIds, allTransactionsGross,
                    allTransactionsFees, netBalanceChange, nonBigCommerceGross,
                    nonBigCommerceFees, totalFee, ammoProductsTotal,
                    bigCommerceGross, bigCommerceNet, rowStart, bucketFeeAdded,
                    table >>

\* What one excluded-product line takes off the platform gross:
\* line.amount (calc.js 265), line.amount / 100 (part_000 433).
AmmoAmount(ver, amount) ==
    IF ver = "calc" THEN Num(amount) ELSE Num(amount) \div 100

RECURSIVE SumAmmo(_, _)
SumAmmo(ver, lines) ==
    IF lines = <<>> THEN 0
    ELSE (IF lines[1].product = AmmoProductId
          THEN AmmoAmount(ver, lines[1].amount) ELSE 0)
         + SumAmmo(ver, Tail(lines))

\* The second loop's awaited stripe.invoices.list resolves
\* (calc.js 256-268, part_000 422-445).
AdjustLookupResolves ==
    /\ pc = "await2"
    /\ \E r \in Responses :
         /\ r.kind = "ok"
         /\ resp' = r
         /\ LET ammo == IF Len(r.data) > 0 /\ HasExcludedProduct(r.data[1].lines)
                        THEN SumAmmo(version, r.data[1].lines) ELSE 0
            IN /\ bigCommerceGross' = bigCommerceGross - ammo
               /\ ammoProductsTotal' = ammoProductsTotal + ammo
    /\ outstanding' = SettleLookup(outstanding)
    /\ idx' = idx + 1
    /\ pc' = "adjust"
    /\ UNCHANGED << version, rows, customerIds, allTransactionsGross,
                    allTransactionsFees, netBalanceChange, nonBigCommerceGross,
                    nonBigCommerceFees, totalFee, bigCommerceNet, lookups,
                    rowStart, bucketFeeAdded, table >>

\* The second loop's awaited stripe.invoices.list rejects: nothing guards it,
\* so main's outer catch takes over (calc.js 280-282, part_000 513-517) and no
\* result is printed.
AdjustLookupRejects ==
    /\ pc = "await2"
    /\ resp' = [kind |-> "throw", data |-> <<>>]
    /\ outstanding' = SettleLookup(outstanding)
    /\ pc' = "aborted"
    /\ UNCHANGED << version, rows, customerIds, idx, allTransactionsGross,
                    allTransactionsFees, netBalanceChange, nonBigCommerceGross,
                    nonBigCommerceFees, totalFee, ammoProductsTotal,
                    bigCommerceGross, bigCommerceNet, lookups, rowStart,
                    bucketFeeAdded, table >>

\* calc.js 271, part_000 463-464
NetDisbursed(net, bucketGross, bucketFee) == net - bucketGross - bucketFee

\* The second loop is over: the net figure, and the results are printed.
Finish ==
    /\ pc = "adjust"
    /\ idx > Len(rows)
    /\ bigCommerceNet' =
         NetDisbursed(netBalanceChange, nonBigCommerceGross, BucketFee)
    /\ pc' = "done"
    /\ UNCHANGED << version, rows, customerIds, idx, allTransactionsGross,
                    allTransactionsFees, netBalanceChange, nonBigCommerceGross,
                    nonBigCommerceFees, totalFee, ammoProductsTotal,
                    bigCommerceGross, outstanding, lookups, resp, rowStart,
                    bucketFeeAdded, table >>

Next ==
    \/ ComputeTotals /\ UNCHANGED feeVars
    \/ ClassifyRow /\ UNCHANGED feeVars
    \/ GetProductFeesReturns /\ UNCHANGED feeVars
    \/ StartAdjustment /\ UNCHANGED feeVars
    \/ AdjustRow /\ UNCHANGED feeVars
    \/ AdjustLookupResolves /\ UNCHANGED feeVars
    \/ AdjustLookupRejects /\ UNCHANGED feeVars
    \/ Finish /\ UNCHANGED feeVars

Spec == Init /\ [][Next]_vars

\* ------------------------------------------- calculateProportionalFees alone

FeeProducts == {"prod_A", AmmoProductId}
FeeLineSet == { Line(p, q, 50) : p \in FeeProducts, q \in 0..MaxQty }
FeeTotals == { Num(-3), Num(10) }

\* The program is not running; only the prorator is applied.
ProgOff ==
    /\ version = "calc"
    /\ rows = <<>>
    /\ customerIds = <<"">>
    /\ pc = "off"
    /\ idx = 1
    /\ allTransactionsGross = 0
    /\ allTransactionsFees = 0
    /\ netBalanceChange = 0
    /\ nonBigCommerceGross = 0
    /\ nonBigCommerceFees = 0
    /\ totalFee = 0
    /\ ammoProductsTotal = 0
    /\ bigCommerceGross = 0
    /\ bigCommerceNet = 0
    /\ outstanding = <<>>
    /\ lookups = <<>>
    /\ resp = NoResponse
    /\ rowStart = [gross |-> 0, fee |-> 0]
    /\ bucketFeeAdded = 0
    /\ table = <<>>

FeeInit ==
    /\ ProgOff
    /\ fLines \in UNION { [1..n -> FeeLineSet] : n \in 0..MaxLines }
    /\ fTotalFee \in FeeTotals
    /\ fResult = EmptyFees
    /\ fpc = "call"

\* calculateProportionalFees(invoice, totalFee) runs and returns; it has no
\* other way to end (calc.js 40-56, part_000 73-89).
Prorate ==
    /\ fpc = "call"
    /\ fResult' = calculateProportionalFees(fLines, fTotalFee)
    /\ fpc' = "returned"
    /\ UNCHANGED << fLines, fTotalFee >>
    /\ UNCHANGED progVars

FeeNext == Prorate

SpecFees == FeeInit /\ [][FeeNext]_vars

\* ================================================================== claims

\* The emails of EmailCells that hold a suppression marker, whatever the case.
SuppressedEmails == {"Dev@RAZOYO.com"}
IsSuppressed(row) == row.customer_email \in SuppressedEmails

\* The classification of section 4.2 of the specification.
ClassOf(row) ==
    IF IsSuppressed(row) THEN "Suppressed"
    ELSE IF row.customer_id = "" THEN "NoCustomer"
    ELSE IF ListIncludes(customerIds, row.customer_id) THEN "ExclusionList"
    ELSE "Unclassified"

KeptRows == SelectSeq(rows, LAMBDA r : ~IsSuppressed(r))

RECURSIVE SumGrossOfClasses(_, _)
SumGrossOfClasses(rs, classes) ==
    IF rs = <<>> THEN 0
    ELSE (IF ClassOf(rs[1]) \in classes THEN grossValue(rs[1]) ELSE 0)
         + SumGrossOfClasses(Tail(rs), classes)

RECURSIVE SumFees(_, _)
SumFees(fees, products) ==
    IF products = {} THEN 0
    ELSE LET p == CHOOSE q \in products : TRUE
         IN fees[p].v + SumFees(fees, products \ {p})

NoNaN(fees) == \A p \in DOMAIN fees : ~fees[p].nan

\* C1: a record whose email holds a suppression marker contributes to no
\* aggregate: at the end of a run grossBeforeFees, the fee total,
\* netBalanceChange and the platform gross are what the report without its
\* suppressed records gives.
C1_SuppressedContributeNothing ==
    pc = "done" =>
      /\ allTransactionsGross = SumChargeGross(KeptRows)
      /\ netBalanceChange = SumChargeGross(KeptRows)
           + SumNegativeGross(KeptRows) + SumNegatedFees(KeptRows)
      /\ (version = "part_000" =>
            allTransactionsFees = SumNegatedFees(KeptRows))
      /\ bigCommerceGross = SumChargeGross(KeptRows)
           - nonBigCommerceGross - ammoProductsTotal

\* C2: suppression takes precedence over the exclusion list: the iteration of
\* either loop over a record that is on the exclusion list and whose email
\* holds a suppression marker changes neither the exclusion-bucket gross, nor
\* the exclusion-bucket fee, nor the ammo adjustment, nor the platform gross,
\* and issues no invoice lookup.
C2_SuppressionPrecedence ==
    [][ ( /\ pc \in {"classify", "adjust"}
          /\ idx <= Len(rows)
          /\ IsSuppressed(rows[idx])
          /\ ListIncludes(customerIds, rows[idx].customer_id) )
        => ( /\ nonBigCommerceGross' = nonBigCommerceGross
             /\ BucketFee' = BucketFee
             /\ bucketFeeAdded' = bucketFeeAdded
             /\ ammoProductsTotal' = ammoProductsTotal
             /\ bigCommerceGross' = bigCommerceGross
             /\ lookups' = lookups
             /\ outstanding' = <<>>
             /\ pc' = pc /\ idx' = idx + 1 ) ]_vars

\* C2 witness: a run ended after both loops passed a suppressed record of a
\* customer on the exclusion list.
C2_Witness ==
    /\ pc = "done"
    /\ \E k \in 1..Len(rows) :
         /\ IsSuppressed(rows[k])
         /\ rows[k].customer_id # ""
         /\ ListIncludes(customerIds, rows[k].customer_id)

\* C3: no invoice lookup is ever issued for a record whose customer_id is
\* empty, in either loop, whatever the exclusion list (the list [""] included).
C3_NoLookupForEmptyCustomerId ==
    \A k \in 1..Len(lookups) :
        /\ lookups[k].customer # ""
        /\ rows[lookups[k].row].customer_id # ""

\* C3 witness: a run ended, with the exclusion list [""], over a report that
\* holds a non-suppressed record with an empty customer_id.
C3_Witness ==
    /\ pc = "done"
    /\ customerIds = <<"">>
    /\ \E k \in 1..Len(rows) :
         rows[k].customer_id = "" /\ ~IsSuppressed(rows[k])

\* C4: each record's gross is counted in exactly one bucket: at the end of a
\* run the platform gross plus the ammo adjustment is the sum of gross over
\* the Unclassified records, and the exclusion-bucket gross is the sum of
\* gross over the NoCustomer and ExclusionList records.
C4_OneBucketPerRecord ==
    pc = "done" =>
      /\ bigCommerceGross + ammoProductsTotal =
           SumGrossOfClasses(rows, {"Unclassified"})
      /\ nonBigCommerceGross =
           SumGrossOfClasses(rows, {"NoCustomer", "ExclusionList"})

\* C5: a failed invoice lookup, in either loop, is treated as "no invoice
\* found": the loop goes on with the next record and the run is not aborted.
C5_FailedLookupNeverAborts ==
    resp.kind = "throw" => pc \in {"classify", "adjust", "await1", "await2", "done"}

C7_NetDisbursed ==
    pc = "done" =>
      /\ bigCommerceNet =
           netBalanceChange - nonBigCommerceGross - bucketFeeAdded
      /\ netBalanceChange = allTransactionsGross + SumNegativeGross(rows)
           + SumNegatedFees(rows)

\* C8: calculateProportionalFees conserves the fee: for non-negative line
\* quantities of positive total, the returned allocations are numbers and
\* sum to totalFee, lines of one product accumulating.
C8_FeeConserved ==
    (fpc = "returned" /\ SumQuantity(fLines) > 0) =>
      /\ NoNaN(fResult)
      /\ SumFees(fResult, DOMAIN fResult) = fTotalFee

\* C8 witness: the prorator has returned for an invoice on which one product
\* has two lines of positive quantity, beside a line of another product.
C8_Witness ==
    /\ fpc = "returned"
    /\ \E i, j \in 1..Len(fLines) :
         /\ i < j
         /\ fLines[i].product = fLines[j].product
         /\ fLines[i].quantity > 0 /\ fLines[j].quantity > 0

\* C9: for an invoice whose quantities sum to 0 (no line, or only zero
\* quantities) the prorator ends by signalling DivisionUndefined, and returns
\* no allocation holding a non-numeric value.
C9_DivisionUndefinedSignalled ==
    (fpc # "call" /\ SumQuantity(fLines) = 0) =>
      /\ fpc = "DivisionUndefined"
      /\ NoNaN(fResult)

\* C10: for an ExclusionList record whose looked-up invoice holds a line of
\* the excluded product (and has a positive total quantity), the
\* classification loop adds to the exclusion-bucket gross the amounts of the
\* other lines, and to the exclusion-bucket fee the prorated allocations of
\* the other products, and nothing else.
C10_ExcludedProductLinesLeftOut ==
    ( /\ pc = "classify"
      /\ resp.kind = "ok"
      /\ Len(resp.data) > 0
      /\ HasExcludedProduct(resp.data[1].lines)
      /\ SumQuantity(resp.data[1].lines) > 0 )
    => LET lines == resp.data[1].lines
           fees == calculateProportionalFees(lines, feeValue(rows[idx - 1]))
       IN /\ nonBigCommerceGross - rowStart.gross = KeptAmount(lines)
          /\ BucketFee - rowStart.fee =
               SumFees(fees, DOMAIN fees \ {AmmoProductId})

\* C11: when the lookup for an ExclusionList record finds no invoice (it
\* failed, or resolved with an empty list), the classification loop has added
\* the record's gross once to the exclusion-bucket gross and the record's
\* fee exactly once to the exclusion-bucket fee, and the row it pushed
\* carries the flag "No".
C11_NoInvoiceFullFeeOnce ==
    ( /\ pc = "classify"
      /\ resp.kind \in {"throw", "ok"}
      /\ Len(resp.data) = 0 )
    => /\ ClassOf(rows[idx - 1]) = "ExclusionList"
       /\ nonBigCommerceGross - rowStart.gross = grossValue(rows[idx - 1])
       /\ BucketFee - rowStart.fee = feeValue(rows[idx - 1])
       /\ table # <<>>
       /\ table[Len(table)].source = << "text", rows[idx - 1].customer_id >>
       /\ table[Len(table)].notes = << "text", "No" >>

\* C12: invoice lookups are strictly sequential.  At most one lookup is
\* outstanding at any time; an outstanding lookup is the one issued last, so
\* no lookup is issued while an earlier one has neither returned nor failed;
\* the lookups are issued in record order within each loop, those of the
\* classification loop before those of the second loop; and a lookup of the
\* second loop is issued only once the classification loop is over.
C12_LookupsSequential ==
    /\ Len(outstanding) <= 1
    /\ outstanding # <<>> =>
         /\ lookups # <<>>
         /\ outstanding[1] = lookups[Len(lookups)]
         /\ pc \in {"await1", "await2"}
    /\ \A i \in 1 .. Len(lookups) - 1 :
         \/ lookups[i].pass < lookups[i + 1].pass
         \/ /\ lookups[i].pass = lookups[i + 1].pass
            /\ lookups[i].row < lookups[i + 1].row
    /\ \A i \in 1 .. Len(lookups) :
         lookups[i].pass = 2 => pc \in {"adjust", "await2", "done", "aborted"}

\* A finished run that looked up two records in the classification loop and
\* then two records in the second loop.
C12_Witness ==
    /\ pc = "done"
    /\ outstanding = <<>>
    /\ \E i, j, k, l \in 1 .. Len(lookups) :
         /\ i < j /\ j < k /\ k < l
         /\ lookups[i].pass = 1 /\ lookups[j].pass = 1
         /\ lookups[k].pass = 2 /\ lookups[l].pass = 2

\* C13: the second loop looks up, and takes excluded-product amounts off the
\* platform gross, only for records that are not suppressed, have a customer
\* id and are not on the exclusion list: every lookup of the second loop is
\* for such a record, and a step that lowers the platform gross during the
\* second loop is the settling of such a record's lookup (the loop's index
\* is past the record then).
C13_AdjustmentOnlyForCandidateRecords ==
    /\ \A i \in 1 .. Len(lookups) :
         lookups[i].pass = 2 => ClassOf(rows[lookups[i].row]) = "Unclassified"
    /\ ( /\ pc \in {"adjust", "done"}
         /\ idx > 1
         /\ resp.kind = "ok"
         /\ Len(resp.data) > 0
         /\ HasExcludedProduct(resp.data[1].lines) )
       => ClassOf(rows[idx - 1]) = "Unclassified"

\* The indices among from..Len(rows) of the records the second pass is to
\* adjust for: not suppressed, with a customer id, off the exclusion list.
RECURSIVE EligibleRecords(_)
EligibleRecords(from) ==
    IF from > Len(rows) THEN <<>>
    ELSE (IF ClassOf(rows[from]) = "Unclassified" THEN << from >> ELSE <<>>)
         \o EligibleRecords(from + 1)

\* The records the second loop has issued a lookup for, in issue order.
SecondPassRecords ==
    LET second == SelectSeq(lookups, LAMBDA l : l.pass = 2)
    IN [i \in 1 .. Len(second) |-> second[i].row]

\* The excluded-product amount of the invoice a lookup returned.
ExcludedAmountOf(r) ==
    IF r.kind = "ok" /\ Len(r.data) > 0
    THEN SumAmmo(version, r.data[1].lines) ELSE 0

\* C14: lookups and adjustments are per record.  When the second loop has
\* run to its end, it has issued one lookup for each eligible record, in
\* record order, a customer id on k eligible records being looked up k
\* times; and each lookup that returns takes the excluded-product amount of
\* the returned invoice off the platform gross, whatever the record's own
\* gross and reporting category.
C14_PerRecordLookups ==
    /\ [](pc = "done" => SecondPassRecords = EligibleRecords(1))
    /\ [][ (pc = "await2" /\ pc' = "adjust")
            => /\ ClassOf(rows[idx]) = "Unclassified"
               /\ bigCommerceGross' = bigCommerceGross - ExcludedAmountOf(resp')
          ]_vars

====
